---------------------------- MODULE Spec2Model ----------------------------
(***************************************************************************)
(* A model of app_rsa.py: the Miller-Rabin primality test, the prime       *)
(* generator, gcd, the extended Euclidean inverse, key generation,         *)
(* per-symbol encryption and decryption, and the three pages of the        *)
(* Streamlit session that call them.                                       *)
(*                                                                         *)
(* Python integers are unbounded.  Every quantity of the model stays below *)
(* 2^31; modular products whose plain product would exceed that are        *)
(* computed by MulMod nine bits at a time, so the value is the exact one.  *)
(*                                                                         *)
(* A Python str is modelled as the sequence of its code points; one        *)
(* character is a str of length one, ord reads its code point and chr      *)
(* builds it, raising ValueError outside range(0x110000).                  *)
(***************************************************************************)
EXTENDS Integers, Sequences, FiniteSets, TLC

VARIABLES
    \* is_prime / generate_prime
    mode,          \* which function the run entered: "is_prime", "generate_prime", ...
    gbits,         \* generate_prime's argument bits
    cand,          \* generate_prime's p, which is is_prime's n
    k,             \* is_prime's round count
    rounds_done,   \* iterations of `for _ in range(k)` completed
    verdict,       \* is_prime's return value
    ppc,           \* position inside generate_prime / is_prime
    \* generate_keypair
    bits, p, q, n, phi, e, d, public, private, kpc,
    \* mod_inverse called on its own
    inv_a, inv_m, inv_result, ipc,
    \* decrypt called on its own
    ciphertext, dec_result, dpc,
    \* st.session_state and what one rerun of the script leaves on screen
    page, public_key, private_key, encrypted_msg, original_msg, decrypted_msg,
    message_to_encrypt, encrypted_data, status, enc_under

primeVars   == <<mode, gbits, cand, k, rounds_done, verdict, ppc>>
keygenVars  == <<bits, p, q, n, phi, e, d, public, private, kpc>>
invVars     == <<inv_a, inv_m, inv_result, ipc>>
decVars     == <<ciphertext, dec_result, dpc>>
sessionVars == <<page, public_key, private_key, encrypted_msg, original_msg,
                 decrypted_msg, message_to_encrypt, encrypted_data, status,
                 enc_under>>
vars == <<primeVars, keygenVars, invVars, decVars, sessionVars>>

---------------------------------------------------------------------------
(* Bounds of the model.                                                    *)

\* is_prime is called directly on every n in 0..MaxCand (and on NamedCands).
MaxCand == 130
\* ... with every round count k in 1..MaxK.
MaxK == 5
\* generate_prime is called directly with bits in 1..MaxPrimeBits.
MaxPrimeBits == 8
\* generate_keypair is called with bits in MinBits..MaxBits; when termination
\* is checked, with bits in MinBits..MaxFairBits.
MinBits == 4
MaxBits == 10
MaxFairBits == 8
\* mod_inverse is called on every 1 <= a < m <= MaxPhi (and on m = 3120).
MaxPhi == 100
\* Messages and ciphertexts hold at most MaxLen symbols.
MaxLen == 2
\* The key size the session's slider is set to (the app offers 128..2048).
KeyBits == 6

---------------------------------------------------------------------------
(* Python built-ins.                                                       *)

\* The falsy "no value yet" of session state and of unset locals.
None == <<>>

RECURSIVE Pow2(_)
\* 1 << i
Pow2(i) == IF i = 0 THEN 1 ELSE 2 * Pow2(i - 1)

RECURSIVE BitOr(_, _)
\* x | y on non-negative integers
BitOr(x, y) ==
    IF x = 0 THEN y
    ELSE IF y = 0 THEN x
    ELSE (IF x % 2 = 1 \/ y % 2 = 1 THEN 1 ELSE 0) + 2 * BitOr(x \div 2, y \div 2)

RECURSIVE AddMulMod(_, _, _)
\* (a * b) % m for a, b < m < 2^21, taking b nine bits at a time: a partial
\* result times 512 plus a times nine bits of b stays below 2^31
AddMulMod(a, b, m) ==
    IF b < 512 THEN (a * b) % m
    ELSE (AddMulMod(a, b \div 512, m) * 512 + a * (b % 512)) % m

\* (a * b) % m, exact: residues of a modulus up to 46340 multiply within 32 bits
MulMod(a, b, m) ==
    IF m <= 46340 THEN (a * b) % m ELSE AddMulMod(a, b, m)

RECURSIVE pow(_, _, _)
\* pow(base, exponent, modulus) for base, exponent >= 0 and modulus > 0, by
\* squaring.  A zero power stays zero; testing for it first also has each
\* level compute its half power before it squares it.
pow(base, exponent, modulus) ==
    IF modulus = 1 THEN 0
    ELSE IF exponent = 0 THEN 1
    ELSE LET h == pow(base, exponent \div 2, modulus)
         IN  IF h = 0 THEN 0
             ELSE LET s == MulMod(h, h, modulus)
                  IN  IF s = 0 THEN 0
                      ELSE IF exponent % 2 = 1
                           THEN MulMod(s, base % modulus, modulus)
                           ELSE s

\* chr accepts range(0x110000)
MaxCodePoint == 1114111

\* ord(char), char a str of length one
ord(char) == char[1]

\* chr(i): the one-character str, or ValueError
chr(i) ==
    IF i >= 0 /\ i <= MaxCodePoint
    THEN [raised |-> FALSE, value |-> <<i>>]
    ELSE [raised |-> TRUE, value |-> <<>>]

---------------------------------------------------------------------------
(* is_prime (Miller-Rabin), lines 4-35.                                    *)

RECURSIVE TwoExponent(_)
\* s of n - 1 = 2^s * d: the halvings of `while d % 2 == 0`
TwoExponent(x) == IF x % 2 = 0 THEN 1 + TwoExponent(x \div 2) ELSE 0

RECURSIVE OddPart(_)
\* d of n - 1 = 2^s * d
OddPart(x) == IF x % 2 = 0 THEN OddPart(x \div 2) ELSE x

RECURSIVE SquaringLoop(_, _, _)
\* `for _ in range(s - 1)` of one round: TRUE when it breaks on x == n - 1,
\* FALSE when it runs out (the for's else branch)
SquaringLoop(x, left, nn) ==
    IF left <= 0 THEN FALSE
    ELSE LET x2 == pow(x, 2, nn)
         IN  IF x2 = nn - 1 THEN TRUE ELSE SquaringLoop(x2, left - 1, nn)

\* A mutant of FirstPowerPasses: the test x == n - 1 is forgotten.
FirstPowerPassesOnlyOne(x, nn) == x = 1

\* line 27
FirstPowerPasses(x, nn) == x = 1 \/ x = nn - 1

\* One iteration of `for _ in range(k)` with witness a: TRUE when the round
\* passes (continue / break), FALSE when is_prime returns False in it.
RoundPasses(nn, a) ==
    LET x == pow(a, OddPart(nn - 1), nn)
    IN  \/ FirstPowerPasses(x, nn)
        \/ SquaringLoop(x, TwoExponent(nn - 1) - 1, nn)

\* The witnesses random.randint(2, n - 2) can return
Witnesses(nn) == 2 .. (nn - 2)

\* lines 9-14: the verdicts given before any witness is drawn
FastPath(nn) ==
    IF nn <= 1 \/ nn = 4 THEN "False"
    ELSE IF nn <= 3 THEN "True"
    ELSE IF nn % 2 = 0 THEN "False"
    ELSE "rounds"

\* lines 9-21
IsPrimeEntry ==
    /\ ppc = "entry"
    /\ LET f == FastPath(cand)
       IN  IF f = "rounds"
           THEN /\ ppc' = "rounds"
                /\ rounds_done' = 0
                /\ UNCHANGED verdict
           ELSE /\ ppc' = "verdict"
                /\ verdict' = (f = "True")
                /\ UNCHANGED rounds_done
    /\ UNCHANGED <<mode, gbits, cand, k>>
    /\ UNCHANGED <<keygenVars, invVars, decVars, sessionVars>>

\* lines 24-34: one round
IsPrimeRound ==
    /\ ppc = "rounds"
    /\ rounds_done < k
    /\ \E a \in Witnesses(cand) :
         IF RoundPasses(cand, a)
         THEN /\ rounds_done' = rounds_done + 1
              /\ UNCHANGED <<ppc, verdict>>
         ELSE /\ ppc' = "verdict"
              /\ verdict' = FALSE
              /\ UNCHANGED rounds_done
    /\ UNCHANGED <<mode, gbits, cand, k>>
    /\ UNCHANGED <<keygenVars, invVars, decVars, sessionVars>>

\* line 35
IsPrimeAccept ==
    /\ ppc = "rounds"
    /\ rounds_done = k
    /\ ppc' = "verdict"
    /\ verdict' = TRUE
    /\ UNCHANGED <<mode, gbits, cand, k, rounds_done>>
    /\ UNCHANGED <<keygenVars, invVars, decVars, sessionVars>>

---------------------------------------------------------------------------
(* generate_prime, lines 37-46.                                            *)

\* is_prime's default k
DefaultRounds == 5

\* A mutant of Candidate: only the low bit is forced.
CandidateLowBitOnly(r, b) == BitOr(r, 1)

\* line 44: p |= (1 << bits - 1) | 1
Candidate(r, b) == BitOr(r, BitOr(Pow2(b - 1), 1))

\* random.getrandbits(bits)
RandBits(b) == 0 .. (Pow2(b) - 1)

\* lines 42-45: draw, force the top and bottom bit, call is_prime(p)
GenDraw ==
    /\ ppc = "draw"
    /\ \E r \in RandBits(gbits) : cand' = Candidate(r, gbits)
    /\ k' = DefaultRounds
    /\ ppc' = "entry"
    /\ UNCHANGED <<mode, gbits, rounds_done, verdict>>
    /\ UNCHANGED <<keygenVars, invVars, decVars, sessionVars>>

\* lines 45-46 and the loop back to line 41
GenCheck ==
    /\ ppc = "verdict"
    /\ mode # "is_prime"
    /\ ppc' = IF verdict THEN "returned" ELSE "draw"
    /\ UNCHANGED <<mode, gbits, cand, k, rounds_done, verdict>>
    /\ UNCHANGED <<keygenVars, invVars, decVars, sessionVars>>

---------------------------------------------------------------------------
(* Values of the variables a specification does not use.                   *)

IdlePrime ==
    /\ mode = "none" /\ gbits = 0 /\ cand = 0 /\ k = 0
    /\ rounds_done = 0 /\ verdict = FALSE /\ ppc = "idle"

IdleKeygen ==
    /\ bits = 0 /\ p = 0 /\ q = 0 /\ n = 0 /\ phi = 0 /\ e = 0 /\ d = 0
    /\ public = None /\ private = None /\ kpc = "idle"

IdleInverse == inv_a = 0 /\ inv_m = 0 /\ inv_result = None /\ ipc = "idle"

IdleDecrypt == ciphertext = <<>> /\ dec_result = None /\ dpc = "idle"

IdleSession ==
    /\ page = "none" /\ public_key = None /\ private_key = None
    /\ encrypted_msg = <<>> /\ original_msg = <<>> /\ decrypted_msg = <<>>
    /\ message_to_encrypt = <<>> /\ encrypted_data = <<>> /\ status = "none"
    /\ enc_under = None

---------------------------------------------------------------------------
(* SpecPrimes: is_prime and generate_prime called on their own.            *)

\* The values the specification's testable properties name
NamedCands == {2, 3, 5, 7, 11, 97, 7919, 0, 1, 4, 9, 100, 7920}

InitPrimes ==
    /\ \/ /\ mode = "is_prime"
          /\ cand \in (0 .. MaxCand) \cup NamedCands
          /\ k \in 1 .. MaxK
          /\ gbits = 0
          /\ ppc = "entry"
       \/ /\ mode = "generate_prime"
          /\ gbits \in 1 .. MaxPrimeBits
          /\ cand = 0
          /\ k = 0
          /\ ppc = "draw"
    /\ rounds_done = 0
    /\ verdict = FALSE
    /\ IdleKeygen /\ IdleInverse /\ IdleDecrypt /\ IdleSession

NextPrimes == IsPrimeEntry \/ IsPrimeRound \/ IsPrimeAccept \/ GenDraw \/ GenCheck

SpecPrimes == InitPrimes /\ [][NextPrimes]_vars

\* n is prime, by trial division
IsActualPrime(x) == x > 1 /\ \A f \in 2 .. (x - 1) : f * f > x \/ x % f # 0

\* C5: whatever witnesses are drawn and for every k >= 1, is_prime returns
\* True for every prime and False for 0, 1, 4, 9, 100, 7920 and every even
\* n > 2.
C5_PrimalityCorrect ==
    (mode = "is_prime" /\ ppc = "verdict") =>
        /\ IsActualPrime(cand) => verdict = TRUE
        /\ cand \in {0, 1, 4, 9, 100, 7920} => verdict = FALSE
        /\ (cand > 2 /\ cand % 2 = 0) => verdict = FALSE

\* The prime 7919 went through all k rounds of witnesses, k the largest.
C5_Witness ==
    /\ mode = "is_prime" /\ ppc = "verdict"
    /\ cand = 7919 /\ verdict = TRUE /\ rounds_done = k /\ k = MaxK

\* C7: every value generate_prime(b) returns has exactly b bits and is odd.
C7_BitLength ==
    (mode = "generate_prime" /\ ppc = "returned") =>
        /\ Pow2(gbits - 1) <= cand
        /\ cand < Pow2(gbits)
        /\ cand % 2 = 1

\* generate_prime returned a prime of the largest requested length after
\* rejecting nothing less than a full run of rounds.
C7_Witness ==
    /\ mode = "generate_prime" /\ ppc = "returned"
    /\ gbits = MaxPrimeBits /\ rounds_done = DefaultRounds

---------------------------------------------------------------------------
(* gcd, lines 48-54, and mod_inverse, lines 56-76.                         *)

RECURSIVE gcdReturnsB(_, _)
\* A mutant of gcd: it returns b, which the loop has just driven to 0.
gcdReturnsB(a, b) == IF b # 0 THEN gcdReturnsB(b, a % b) ELSE b

RECURSIVE gcd(_, _)
\* while b: a, b = b, a % b
gcd(a, b) == IF b # 0 THEN gcd(b, a % b) ELSE a

RECURSIVE InverseLoop(_, _, _, _)
\* `while a > 1` of mod_inverse: the final x, or ZeroDivisionError at a // m
InverseLoop(a, m, x, y) ==
    IF a > 1
    THEN IF m = 0
         THEN [raised |-> TRUE, value |-> 0]
         ELSE InverseLoop(m, a % m, y, x - (a \div m) * y)
    ELSE [raised |-> FALSE, value |-> x]

\* A mutant of Normalize: the negative coefficient is returned as it is.
NormalizeForgotten(x, m0) == x

\* lines 74-75
Normalize(x, m0) == IF x < 0 THEN x + m0 ELSE x

\* mod_inverse(a, m)
mod_inverse(a, m) ==
    IF m = 1 THEN [raised |-> FALSE, value |-> 0]
    ELSE LET r == InverseLoop(a, m, 1, 0)
         IN  IF r.raised THEN r
             ELSE [raised |-> FALSE, value |-> Normalize(r.value, m)]

---------------------------------------------------------------------------
(* SpecInverse: mod_inverse called on its own.                             *)

InitInverse ==
    \* 3120 is phi of the worked example p = 61, q = 53
    /\ inv_m \in (1 .. MaxPhi) \cup {3120}
    /\ inv_a \in 1 .. inv_m
    /\ inv_result = None
    /\ ipc = "call"
    /\ IdlePrime /\ IdleKeygen /\ IdleDecrypt /\ IdleSession

\* the call mod_inverse(a, m), line 105
InverseCall ==
    /\ ipc = "call"
    /\ inv_result' = mod_inverse(inv_a, inv_m)
    /\ ipc' = "returned"
    /\ UNCHANGED <<inv_a, inv_m>>
    /\ UNCHANGED <<primeVars, keygenVars, decVars, sessionVars>>

NextInverse == InverseCall

SpecInverse == InitInverse /\ [][NextInverse]_vars

\* a and b have no common divisor above 1
Coprime(a, b) == \A f \in 2 .. a : a % f # 0 \/ b % f # 0

\* C4: for phi > 1, 1 < e < phi and gcd(e, phi) = 1, mod_inverse(e, phi)
\* returns d with 0 <= d < phi and (e * d) mod phi = 1; e = 17, phi = 3120
\* gives d = 2753.
C4_Inverse ==
    (ipc = "returned" /\ inv_m > 1 /\ 1 < inv_a /\ inv_a < inv_m
        /\ Coprime(inv_a, inv_m)) =>
        /\ ~inv_result.raised
        /\ 0 <= inv_result.value
        /\ inv_result.value < inv_m
        /\ (inv_a * inv_result.value) % inv_m = 1
        /\ (inv_a = 17 /\ inv_m = 3120) => inv_result.value = 2753

\* An inverse whose Bezout coefficient came out negative and was normalized:
\* e = 17, phi = 3120 (x = -367 before line 75).
C4_Witness ==
    /\ ipc = "returned" /\ inv_a = 17 /\ inv_m = 3120
    /\ InverseLoop(17, 3120, 1, 0).value < 0
    /\ inv_result.value = 2753

---------------------------------------------------------------------------
(* encrypt, lines 111-136, and decrypt, lines 138-150.                     *)

RECURSIVE EncryptLoopPartial(_, _, _, _)
\* A mutant of EncryptLoop: on a symbol too large it returns what it has.
EncryptLoopPartial(key, plaintext, i, acc) ==
    IF i > Len(plaintext) THEN acc
    ELSE LET char_as_int == ord(<<plaintext[i]>>)
         IN  IF char_as_int >= key[1]
             THEN acc
             ELSE EncryptLoopPartial(key, plaintext, i + 1,
                                     Append(acc, pow(char_as_int, key[2], key[1])))

RECURSIVE EncryptLoop(_, _, _, _)
\* `for char in plaintext` from position i with encrypted_msg_chars = acc
EncryptLoop(key, plaintext, i, acc) ==
    IF i > Len(plaintext) THEN acc
    ELSE LET char_as_int == ord(<<plaintext[i]>>)
         IN  IF char_as_int >= key[1]
             THEN <<>>
             ELSE EncryptLoop(key, plaintext, i + 1,
                              Append(acc, pow(char_as_int, key[2], key[1])))

\* encrypt(public_key, plaintext)
encrypt(key, plaintext) == EncryptLoop(key, plaintext, 1, <<>>)

RECURSIVE DecryptLoop(_, _, _, _)
\* `for char_code in ciphertext` from position i with "".join(acc) so far;
\* a ValueError of chr leaves the function at once
DecryptLoop(key, text, i, acc) ==
    IF i > Len(text) THEN [raised |-> FALSE, value |-> acc]
    ELSE LET c == chr(pow(text[i], key[2], key[1]))
         IN  IF c.raised
             THEN [raised |-> TRUE, value |-> <<>>]
             ELSE DecryptLoop(key, text, i + 1, acc \o c.value)

\* decrypt(private_key, ciphertext)
decrypt(key, text) == DecryptLoop(key, text, 1, <<>>)

---------------------------------------------------------------------------
(* generate_keypair, lines 78-109.                                         *)

\* A mutant of Totient: the + 1 of the expansion is lost.
TotientExpandedWrong(pp, qq) == pp * qq - pp - qq

\* line 91
Totient(pp, qq) == (pp - 1) * (qq - 1)

\* A mutant of ExponentRange: random.randint(1, phi).
ExponentRangeWide(f) == 1 .. f

\* lines 99 and 101: random.randint(2, phi - 1)
ExponentRange(f) == 2 .. (f - 1)

\* line 100: the condition of `while gcd(e, phi) != 1`
ExponentRejected(x, f) == gcd(x, f) # 1

\* line 84: generate_prime returned p; line 85 calls it again
KeygenTakeP ==
    /\ kpc = "gen_p" /\ ppc = "returned"
    /\ p' = cand
    /\ kpc' = "gen_q"
    /\ ppc' = "draw"
    /\ UNCHANGED <<mode, gbits, cand, k, rounds_done, verdict>>
    /\ UNCHANGED <<bits, q, n, phi, e, d, public, private>>
    /\ UNCHANGED <<invVars, decVars, sessionVars>>

\* lines 85 and 88: generate_prime returned q
KeygenTakeQ ==
    /\ kpc = "gen_q" /\ ppc = "returned"
    /\ q' = cand
    /\ kpc' = "distinct"
    /\ ppc' = "idle"
    /\ UNCHANGED <<mode, gbits, cand, k, rounds_done, verdict>>
    /\ UNCHANGED <<bits, p, n, phi, e, d, public, private>>
    /\ UNCHANGED <<invVars, decVars, sessionVars>>

\* lines 87-91: `while p == q` calls generate_prime again, else n and phi
KeygenDistinct ==
    /\ kpc = "distinct"
    /\ IF p = q
       THEN /\ kpc' = "gen_q"
            /\ ppc' = "draw"
            /\ UNCHANGED <<n, phi>>
       ELSE /\ n' = p * q
            /\ phi' = Totient(p, q)
            /\ kpc' = "choose_e"
            /\ UNCHANGED ppc
    /\ UNCHANGED <<mode, gbits, cand, k, rounds_done, verdict>>
    /\ UNCHANGED <<bits, p, q, e, d, public, private>>
    /\ UNCHANGED <<invVars, decVars, sessionVars>>

\* lines 99 and 101: draw e
KeygenChooseE ==
    /\ kpc = "choose_e"
    /\ \E x \in ExponentRange(phi) : e' = x
    /\ kpc' = "check_e"
    /\ UNCHANGED <<bits, p, q, n, phi, d, public, private>>
    /\ UNCHANGED <<primeVars, invVars, decVars, sessionVars>>

\* lines 100-109: draw again while gcd(e, phi) != 1, else d and the keys
KeygenCheckE ==
    /\ kpc = "check_e"
    /\ IF ExponentRejected(e, phi)
       THEN /\ kpc' = "choose_e"
            /\ UNCHANGED <<d, public, private>>
       ELSE /\ d' = mod_inverse(e, phi).value
            /\ public' = <<n, e>>
            /\ private' = <<n, d'>>
            /\ kpc' = "returned"
    /\ UNCHANGED <<bits, p, q, n, phi, e>>
    /\ UNCHANGED <<primeVars, invVars, decVars, sessionVars>>

KeygenStart(lo, hi) ==
    /\ bits \in lo .. hi
    /\ p = 0 /\ q = 0 /\ n = 0 /\ phi = 0 /\ e = 0 /\ d = 0
    /\ public = None /\ private = None
    /\ kpc = "gen_p"
    /\ mode = "generate_keypair"
    /\ gbits = bits \div 2
    /\ cand = 0 /\ k = 0 /\ rounds_done = 0 /\ verdict = FALSE
    /\ ppc = "draw"
    /\ IdleInverse /\ IdleDecrypt /\ IdleSession

InitKeygen == KeygenStart(MinBits, MaxBits)

NextKeygen ==
    \/ GenDraw \/ IsPrimeEntry \/ IsPrimeRound \/ IsPrimeAccept \/ GenCheck
    \/ KeygenTakeP \/ KeygenTakeQ \/ KeygenDistinct
    \/ KeygenChooseE \/ KeygenCheckE

SpecKeygen == InitKeygen /\ [][NextKeygen]_vars

\* Each random draw is fair: an outcome that stays possible is drawn in the
\* end.  The two outcomes the loops wait for are a prime candidate other
\* than p and an exponent coprime to phi.
FairKeygen ==
    /\ KeygenStart(MinBits, MaxFairBits)
    /\ [][NextKeygen]_vars
    /\ WF_vars(NextKeygen)
    /\ SF_vars(GenDraw /\ IsActualPrime(cand') /\ cand' # p)
    /\ SF_vars(KeygenChooseE /\ ~ExponentRejected(e', phi))

\* Every str of at most MaxLen symbols over the code points in codes
Strings(codes) == UNION {[1 .. len -> codes] : len \in 0 .. MaxLen}

\* The messages of the round trip: a symbol coprime to every n, one that
\* shares a factor with some n, and "A", which is below n for larger keys only
Messages == Strings({2, 5, 65})

\* decrypt(private, encrypt(public, message)) == message
RoundTrip(pub, priv, message) ==
    LET back == decrypt(priv, encrypt(pub, message))
    IN  ~back.raised /\ back.value = message

\* C1 as stated: every keypair generate_keypair returns decrypts what it
\* encrypted, for every message of symbols below n.
C1_RoundTripEveryKeypair ==
    kpc = "returned" =>
        \A m \in Messages :
            (\A i \in 1 .. Len(m) : m[i] < n) => RoundTrip(public, private, m)

\* C1 amended: the same for every returned keypair whose p and q are prime
\* (Miller-Rabin accepted no composite).
C1_RoundTripPrimeKeypair ==
    (kpc = "returned" /\ IsActualPrime(p) /\ IsActualPrime(q)) =>
        \A m \in Messages :
            (\A i \in 1 .. Len(m) : m[i] < n) => RoundTrip(public, private, m)

\* A keypair of two 5-bit primes was returned and the message "A\x05" went
\* through encrypt, which changed it, and decrypt, which gave it back.
C1_Witness ==
    /\ kpc = "returned" /\ IsActualPrime(p) /\ IsActualPrime(q)
    /\ p = 17 /\ q = 31
    /\ encrypt(public, <<65, 5>>) # <<65, 5>>
    /\ Len(encrypt(public, <<65, 5>>)) = 2
    /\ decrypt(private, encrypt(public, <<65, 5>>)).value = <<65, 5>>

\* C6: every returned e has 1 < e < phi and gcd(e, phi) = 1, phi being
\* (p - 1)(q - 1) of the primes of that call.
C6_Coprimality ==
    kpc = "returned" =>
        /\ phi = (p - 1) * (q - 1)
        /\ 1 < e /\ e < phi
        /\ gcd(e, phi) = 1
        /\ Coprime(e, phi)
        /\ public[2] = e

\* generate_keypair returned a key of n = 35 with the largest exponent of
\* the range, 23 of 2..23.
C6_Witness == kpc = "returned" /\ phi = 24 /\ e = 23

\* C4, on generated keys: (e * d) mod phi = 1.
KeygenInverse == kpc = "returned" => (e * d) % phi = 1 /\ 0 <= d /\ d < phi

\* C8 as stated: for every bits >= 4, under fair draws generate_keypair
\* leaves `while p == q`, finds e and returns.
C8_TerminatesFromFour == (bits >= 4) ~> (kpc = "returned")

\* C8 amended: for every bits >= 6 (primes of at least 3 bits).
C8_TerminatesFromSix == (bits >= 6) ~> (kpc = "returned")

\* generate_keypair returned with the two 3-bit primes, which every draw of
\* q had one chance in two to miss.
C8_Witness == kpc = "returned" /\ bits >= 6 /\ p # q /\ p = 5 /\ q = 7

---------------------------------------------------------------------------
(* What generate_keypair returns, as a value.                              *)

\* lines 90-109 for the primes pp, qq and the accepted exponent x
KeypairOf(pp, qq, x) ==
    <<<<pp * qq, x>>, <<pp * qq, mod_inverse(x, Totient(pp, qq)).value>>>>

\* is_prime(nn) can return True: by lines 9-14, or with a witness that
\* passes, drawn in every round
MayPass(nn) ==
    \/ FastPath(nn) = "True"
    \/ FastPath(nn) = "rounds" /\ \E a \in Witnesses(nn) : RoundPasses(nn, a)

\* The values generate_prime(b) can return
PrimeResults(b) == {c \in {Candidate(r, b) : r \in RandBits(b)} : MayPass(c)}

\* The keypairs generate_keypair(b) can return
Keypairs(b) ==
    UNION {{KeypairOf(pp, qq, x) :
                x \in {y \in ExponentRange(Totient(pp, qq)) :
                          ~ExponentRejected(y, Totient(pp, qq))}} :
           <<pp, qq>> \in {pq \in PrimeResults(b \div 2) \X PrimeResults(b \div 2) :
                             pq[1] # pq[2]}}

\* generate_keypair returns nothing the summary lacks.
KeypairsSound == kpc = "returned" => <<public, private>> \in Keypairs(bits)

---------------------------------------------------------------------------
(* SpecDecrypt: decrypt called on its own.                                 *)

\* Private keys of generate_keypair(6) and generate_keypair(22): n = 35 with
\* e = 11, and n = 1127843 with the draw e = 964903, whose inverse is d = 7
DecryptKeys == {KeypairOf(5, 7, 11)[2], KeypairOf(1061, 1063, 964903)[2]}

\* Ciphertext values in [0, n)
CipherValues(nn) == {0, 1, 2, 3, nn - 2, nn - 1}

InitDecrypt ==
    /\ private \in DecryptKeys
    /\ ciphertext = <<>>
    /\ dec_result = None
    /\ dpc = "build"
    /\ bits = 0 /\ p = 0 /\ q = 0 /\ n = 0 /\ phi = 0 /\ e = 0 /\ d = 0
    /\ public = None /\ kpc = "idle"
    /\ IdlePrime /\ IdleInverse /\ IdleSession

\* the caller builds the list it will pass
DecryptAppend ==
    /\ dpc = "build"
    /\ Len(ciphertext) < MaxLen
    /\ \E c \in CipherValues(private[1]) : ciphertext' = Append(ciphertext, c)
    /\ UNCHANGED <<dec_result, dpc>>
    /\ UNCHANGED <<primeVars, keygenVars, invVars, sessionVars>>

\* the call decrypt(private_key, ciphertext), line 247
DecryptCall ==
    /\ dpc = "build"
    /\ dec_result' = decrypt(private, ciphertext)
    /\ dpc' = "returned"
    /\ UNCHANGED ciphertext
    /\ UNCHANGED <<primeVars, keygenVars, invVars, sessionVars>>

NextDecrypt == DecryptAppend \/ DecryptCall

SpecDecrypt == InitDecrypt /\ [][NextDecrypt]_vars

\* C3: for every private key and every ciphertext of integers in [0, n),
\* decrypt raises nothing and returns as many symbols as it was given.
C3_DecryptNeverFails ==
    dpc = "returned" =>
        /\ ~dec_result.raised
        /\ Len(dec_result.value) = Len(ciphertext)

---------------------------------------------------------------------------
(* Spec: the Streamlit session, lines 159-268.  One action is one run of   *)
(* the script: the sidebar radio gives the page, at most one button is     *)
(* pressed, and the text area holds what the user typed.                   *)

\* The texts the user types: "\x02" is below n = 35, "#" is n itself.  The
\* empty text is typed by clearing the area.
SessionMessages == Strings({2, 35})

Pages == {"1. Key Generation", "2. Encryption", "3. Decryption & Verification"}

\* lines 160-169, and the radio's first option
Init ==
    /\ page = "1. Key Generation"
    /\ public_key = None
    /\ private_key = None
    /\ encrypted_msg = <<>>
    /\ original_msg = <<>>
    /\ decrypted_msg = <<>>
    /\ message_to_encrypt = <<>>
    /\ encrypted_data = <<>>
    /\ status = "none"
    /\ enc_under = None
    /\ IdlePrime /\ IdleKeygen /\ IdleInverse /\ IdleDecrypt

\* A run with no button pressed on page pg.  On the encryption page with
\* keys, line 211 stores the text area's content.
Rerun ==
    /\ \E pg \in Pages :
         /\ page' = pg
         /\ IF pg = "2. Encryption" /\ public_key # None
            THEN \E m \in SessionMessages : original_msg' = m
            ELSE UNCHANGED original_msg
    /\ status' = "none"
    /\ message_to_encrypt' = <<>>
    /\ encrypted_data' = <<>>
    /\ UNCHANGED <<public_key, private_key, encrypted_msg, decrypted_msg, enc_under>>
    /\ UNCHANGED <<primeVars, keygenVars, invVars, decVars>>

\* lines 182-187: "Generate RSA Key Pair"
GeneratePressed ==
    /\ page = "1. Key Generation"
    /\ \E pair \in Keypairs(KeyBits) :
         /\ public_key' = pair[1]
         /\ private_key' = pair[2]
    /\ status' = "keys_generated"
    /\ message_to_encrypt' = <<>>
    /\ encrypted_data' = <<>>
    /\ UNCHANGED <<page, encrypted_msg, original_msg, decrypted_msg, enc_under>>
    /\ UNCHANGED <<primeVars, keygenVars, invVars, decVars>>

\* line 218: `if encrypted_data:`
EncryptionSucceeded(data) == data # <<>>

\* lines 202-225: "Encrypt Message", rendered only with a public key
EncryptPressed ==
    /\ page = "2. Encryption"
    /\ public_key # None
    /\ \E m \in SessionMessages :
         /\ message_to_encrypt' = m
         /\ original_msg' = m
         /\ encrypted_data' = encrypt(public_key, m)
    /\ IF EncryptionSucceeded(encrypted_data')
       THEN /\ encrypted_msg' = encrypted_data'
            /\ enc_under' = public_key
            /\ status' = "encrypt_success"
       ELSE /\ status' = "encrypt_failed"
            /\ UNCHANGED <<encrypted_msg, enc_under>>
    /\ UNCHANGED <<page, public_key, private_key, decrypted_msg>>
    /\ UNCHANGED <<primeVars, keygenVars, invVars, decVars>>

\* lines 235-260: "Decrypt Message", rendered only with a private key and a
\* stored ciphertext; an exception of decrypt ends the run at line 247
DecryptPressed ==
    /\ page = "3. Decryption & Verification"
    /\ private_key # None
    /\ encrypted_msg # <<>>
    /\ LET r == decrypt(private_key, encrypted_msg)
       IN  IF r.raised
           THEN /\ status' = "exception"
                /\ UNCHANGED decrypted_msg
           ELSE /\ decrypted_msg' = r.value
                /\ status' = IF original_msg = r.value
                             THEN "verified" ELSE "verification_failed"
    /\ message_to_encrypt' = <<>>
    /\ encrypted_data' = <<>>
    /\ UNCHANGED <<page, public_key, private_key, encrypted_msg, original_msg,
                   enc_under>>
    /\ UNCHANGED <<primeVars, keygenVars, invVars, decVars>>

Next == Rerun \/ GeneratePressed \/ EncryptPressed \/ DecryptPressed

Spec == Init /\ [][Next]_vars

\* The Encrypt button was pressed in the run that just ended
EncryptRan == status \in {"encrypt_success", "encrypt_failed"}

\* Some symbol of the message has a code point >= n
TooLarge(message, nn) == \E i \in 1 .. Len(message) : message[i] >= nn

RECURSIVE PowerMod(_, _, _)
\* code^e mod n, squaring the base for every bit of e from the lowest up
PowerMod(b, x, m) ==
    IF x = 0 THEN 1 % m
    ELSE LET rest == PowerMod((b * b) % m, x \div 2, m)
         IN  IF x % 2 = 1 THEN (b * rest) % m ELSE rest

\* C2: with a symbol >= n anywhere in the message encrypt returns the empty
\* list; otherwise one value code^e mod n per symbol, in message order.
C2_AllOrNothing ==
    EncryptRan =>
        IF TooLarge(message_to_encrypt, public_key[1])
        THEN encrypted_data = <<>>
        ELSE /\ Len(encrypted_data) = Len(message_to_encrypt)
             /\ \A i \in 1 .. Len(message_to_encrypt) :
                  encrypted_data[i] =
                      PowerMod(message_to_encrypt[i], public_key[2], public_key[1])

\* encrypt gave up on a message whose first symbol it had already encrypted.
C2_Witness ==
    /\ EncryptRan
    /\ message_to_encrypt = <<2, 35>>
    /\ encrypted_data = <<>>
    /\ public_key[1] = 35

\* C9: whenever Decrypt runs, the stored ciphertext was produced by an
\* Encrypt under the public key paired with the stored private key.
C9_DecryptMatchesKey ==
    status \in {"verified", "verification_failed", "exception"} =>
        enc_under = public_key

\* C10: encrypt returns the empty list exactly when a symbol is too large,
\* so the page stores the ciphertext and reports success exactly when none
\* was, and a failure leaves the stored encrypted_msg as it was.
C10_FailureIffTooLarge ==
    EncryptRan =>
        /\ encrypted_data = <<>> <=> TooLarge(message_to_encrypt, public_key[1])
        /\ status = "encrypt_success" <=> ~TooLarge(message_to_encrypt, public_key[1])
        /\ status = "encrypt_success" => encrypted_msg = encrypted_data

===========================================================================
